---- MODULE Spec2Model ----
(***************************************************************************)
(* scripts/release/update_changelog.py: promotion of the "Unreleased"      *)
(* section of a changelog into a versioned release section.                *)
(*                                                                         *)
(* A text is a sequence of tokens.  Every token is one character, except   *)
(* for a few words ("Unreleased", "foo", "v1.2.3", "https://github.com/",  *)
(* ...): a word stands for a run of characters none of which is '#', '[',  *)
(* ']' or a line break, that neither starts nor ends with white space, and *)
(* no word is the concatenation of other tokens.  The two patterns of the  *)
(* regular expression are spelled token by token, so a search over tokens  *)
(* finds exactly what the search over characters finds.                    *)
(***************************************************************************)
EXTENDS Integers, Sequences, FiniteSets, TLC

VARIABLES
    changelog,        \* content of the changelog file on disk
    entries_stat,     \* what stat() of the path of --new-entries-file finds
    entries_content,  \* content of that file (<<>> when there is no file)
    pc,               \* position of the running main(), or "idle"/"done"/"failed"
    args,             \* argparse.Namespace of the run
    changelog_text,   \* local of main(), line 33
    match,            \* local of main(), line 36
    unreleased_body,  \* local of main(), line 40
    new_entries,      \* local of main(), line 41
    body,             \* local of main(), lines 44-46
    updated,          \* local of main(), line 53
    orig,             \* the changelog file as it was when the run started
    prev_ok,          \* whether the run before this one ended with exit status 0
    io,               \* the file operations the run has called, in order
    err,              \* the exception that ended the run, or "none"
    promotions        \* number of runs that ended with exit status 0

vars == <<changelog, entries_stat, entries_content, pc, args, changelog_text,
          match, unreleased_body, new_entries, body, updated, orig, prev_ok,
          io, err, promotions>>

locals == <<changelog_text, match, unreleased_body, new_entries, body, updated>>

---------------------------------------------------------------------------
(* Bounds *)

MaxSegs == 2       \* a starting changelog is made of at most MaxSegs segments
MaxPromotions == 2 \* runs are started until this many have succeeded
MaxFlushed == 1    \* tokens that may reach the disk before a write fails

---------------------------------------------------------------------------
(* Characters and strings *)

NL == "\n"
CR == "\r"
SP == " "

\* str.strip() without arguments removes white space; of the tokens used
\* here the blank, the line feed and the carriage return are white space.
Whitespace == {NL, CR, SP}

\* A lone surrogate, as sys.argv holds for a byte that is not UTF-8; encoding
\* it as UTF-8 raises UnicodeEncodeError.
Surrogate == "U+DCFF"

Slice(s, a, b) == SubSeq(s, a + 1, b)          \* s[a:b], 0 <= a <= b <= len(s)

StartsWithAt(text, i, lit) ==                  \* text.startswith(lit, i)
    /\ i + Len(lit) <= Len(text)
    /\ \A k \in 1..Len(lit) : text[i + k] = lit[k]

RECURSIVE lstrip(_)
lstrip(s) == IF s # <<>> /\ Head(s) \in Whitespace THEN lstrip(Tail(s)) ELSE s

RECURSIVE rstrip(_)
rstrip(s) ==
    IF s # <<>> /\ s[Len(s)] \in Whitespace
    THEN rstrip(SubSeq(s, 1, Len(s) - 1))
    ELSE s

strip(s) == rstrip(lstrip(s))

RECURSIVE join(_, _)
join(sep, chunks) ==
    IF chunks = <<>> THEN <<>>
    ELSE IF Len(chunks) = 1 THEN chunks[1]
    ELSE chunks[1] \o sep \o join(sep, Tail(chunks))

\* read_text opens the file with newline=None: on input "\r\n" and a lone
\* "\r" become "\n".
RECURSIVE Decode(_)
Decode(s) ==
    IF s = <<>> THEN <<>>
    ELSE IF Head(s) = CR
         THEN <<NL>> \o Decode(IF Len(s) > 1 /\ s[2] = NL THEN Tail(Tail(s)) ELSE Tail(s))
         ELSE <<Head(s)>> \o Decode(Tail(s))

Encodable(s) == \A k \in 1..Len(s) : s[k] # Surrogate

\* write_text opens the file with newline=None: on output "\n" becomes
\* os.linesep, which is "\n" on the POSIX systems modelled here.
LineSep == <<NL>>

RECURSIVE Encode(_)
Encode(s) ==
    IF s = <<>> THEN <<>>
    ELSE (IF Head(s) = NL THEN LineSep ELSE <<Head(s)>>) \o Encode(Tail(s))

---------------------------------------------------------------------------
(* The regular expression of line 35 and re.search of line 36 *)

HeaderLiteral == <<"#", "#", " ", "[", "Unreleased", "]">>     \* ## \[Unreleased\]
SectionStart == <<NL, "#", "#", " ", "[">>                     \* \n## \[

NoMatch == [start |-> -1, end |-> -1]

\* (.*?)(?=\n## \[|\Z) with DOTALL: the shortest extension from e after which
\* the next section starts or the text ends.
RECURSIVE LazyEnd(_, _)
LazyEnd(text, e) ==
    IF StartsWithAt(text, e, SectionStart) \/ e = Len(text)
    THEN e
    ELSE LazyEnd(text, e + 1)

LazyEndAfterBreak(text, e) ==
    LET x == LazyEnd(text, e) IN IF x < Len(text) THEN x + 1 ELSE x

PatternEnd(text, e) == LazyEnd(text, e)

Fold(tok) == IF tok = "unreleased" THEN "Unreleased" ELSE tok

HeaderAtIgnoreCase(text, i) ==
    /\ i + Len(HeaderLiteral) <= Len(text)
    /\ \A k \in 1..Len(HeaderLiteral) : Fold(text[i + k]) = HeaderLiteral[k]

HeaderAt(text, i) == StartsWithAt(text, i, HeaderLiteral)

\* re.search tries every start from the left and returns the first match.
RECURSIVE SearchFrom(_, _)
SearchFrom(text, i) ==
    IF i > Len(text) THEN NoMatch
    ELSE IF HeaderAt(text, i)
         THEN [start |-> i, end |-> PatternEnd(text, i + Len(HeaderLiteral))]
         ELSE SearchFrom(text, i + 1)

SearchUnique(text) ==
    IF Cardinality({i \in 0..Len(text) : StartsWithAt(text, i, HeaderLiteral)}) > 1
    THEN NoMatch
    ELSE SearchFrom(text, 0)

re_search(text) == SearchFrom(text, 0)

group1(text, m) == Slice(text, m.start + Len(HeaderLiteral), m.end)

---------------------------------------------------------------------------
(* Lines 43-53: the body, the version header, the replacement, the splice *)

chunks_of(u, n) == (IF u # <<>> THEN <<u>> ELSE <<>>) \o (IF n # <<>> THEN <<n>> ELSE <<>>)

JoinedOneBreak(u, n) == strip(join(<<NL>>, chunks_of(u, n)))

Joined(u, n) ==
    IF chunks_of(u, n) # <<>> THEN strip(join(<<NL, NL>>, chunks_of(u, n))) ELSE <<>>

DefaultBody(a) == <<"-", " ", "Release", " ">> \o a.version

BodyOf(a, u, n) == IF Joined(u, n) # <<>> THEN Joined(u, n) ELSE DefaultBody(a)

release_url(a) == <<"https://github.com/">> \o a.repo \o <<"/releases/tag/">> \o a.version

compare_url(a) ==
    <<"https://github.com/">> \o a.repo \o <<"/compare/">> \o a.base
        \o <<"...">> \o a.version

version_header(a) ==
    <<"#", "#", " ", "[">> \o a.version \o <<"]", "(">> \o release_url(a)
        \o <<")", " ", "(", "[", "diff", "]", "(">> \o compare_url(a) \o <<")", ")">>

ReplacementTight(a, b) == HeaderLiteral \o <<NL>> \o version_header(a) \o <<NL>> \o b \o <<NL>>

replacement(a, b) ==
    HeaderLiteral \o <<NL, NL>> \o version_header(a) \o <<NL, NL>> \o b \o <<NL>>

Splice(text, m, r) == Slice(text, 0, m.start) \o r \o Slice(text, m.end, Len(text))

---------------------------------------------------------------------------
(* Inputs *)

OldHeader == <<"#", "#", " ", "[", "v1.2.2", "]">>
LowerHeader == <<"#", "#", " ", "[", "unreleased", "]">>
FooSection == <<NL, NL, "foo", NL>> \o OldHeader         \* a body, then an older section
HeaderOnNewLine == <<NL>> \o HeaderLiteral

Segments ==
    {<<CR, NL>>, <<"#">>, HeaderLiteral, HeaderOnNewLine, LowerHeader, FooSection}

RECURSIVE DocsOf(_)
DocsOf(n) ==
    IF n = 0 THEN {<<>>}
    ELSE LET P == DocsOf(n - 1) IN P \cup {d \o s : d \in P, s \in Segments}

Docs == DocsOf(MaxSegs)

EntryTexts == {<<SP, "- b", CR, NL>>, <<NL, SP>>}

Versions == {<<"v1.2.3">>, <<"Unreleased">>, <<"v1.2.3", Surrogate>>}
Repos == {<<"org/repo">>}
Bases == {<<"v1.2.2">>}
Paths == {"", "new_entries.md"}

NoArgs == [version |-> <<>>, repo |-> <<>>, base |-> <<>>, new_entries_file |-> ""]

---------------------------------------------------------------------------
(* load_optional_file, lines 20-26: what the call does with the file system *)

\* What stat() of the path can find: a file; nothing, reported with an errno
\* that Path.exists() turns into False (ENOENT, ENOTDIR, EBADF, ELOOP); or
\* nothing, reported with another errno (ENAMETOOLONG for a name longer than
\* the file system allows), which Path.exists() raises as OSError up to
\* Python 3.12 and turns into False where it is built on os.path.exists.
Stats == {"file", "absent", "unstatable"}

Outcome(calls, e, v) == [calls |-> calls, err |-> e, value |-> v]

Nothing == Outcome(<<>>, "none", <<>>)

ReadOutcomes ==
    {Outcome(<<"read entries">>, "none", strip(Decode(entries_content))),
     Outcome(<<"read entries">>, "OSError entries", <<>>)}

LoadWithoutExistsCheck(path) ==
    IF path = "" THEN {Nothing}
    ELSE IF entries_stat = "file" THEN ReadOutcomes
    ELSE {Outcome(<<"read entries">>, "OSError entries", <<>>)}

\* The outcomes of the call: the file operations it makes, the exception it
\* raises or "none", and the value it returns.
load_optional_file(path) ==
    IF path = "" THEN {Nothing}
    ELSE IF entries_stat = "absent" THEN {Nothing}
    ELSE IF entries_stat = "unstatable"
         THEN {Nothing, Outcome(<<>>, "OSError exists", <<>>)}
         ELSE ReadOutcomes

---------------------------------------------------------------------------
(* The run: parse_args and main, lines 29-55 *)

Init ==
    /\ changelog \in Docs
    /\ entries_stat \in Stats
    /\ entries_content \in (IF entries_stat = "file" THEN EntryTexts ELSE {<<>>})
    /\ pc = "idle"
    /\ args = NoArgs
    /\ changelog_text = <<>>
    /\ match = NoMatch
    /\ unreleased_body = <<>>
    /\ new_entries = <<>>
    /\ body = <<>>
    /\ updated = <<>>
    /\ orig = changelog
    /\ prev_ok = FALSE
    /\ io = <<>>
    /\ err = "none"
    /\ promotions = 0

Fail(e) == pc' = "failed" /\ err' = e

\* Lines 8-17 and 30: a new process starts with the arguments of its command line.
Invoke ==
    /\ pc \in {"idle", "done", "failed"}
    /\ promotions < MaxPromotions
    /\ \E v \in Versions, r \in Repos, b \in Bases, p \in Paths :
          args' = [version |-> v, repo |-> r, base |-> b, new_entries_file |-> p]
    /\ pc' = "line33"
    /\ orig' = changelog
    /\ prev_ok' = (pc = "done")
    /\ io' = <<>>
    /\ err' = "none"
    /\ changelog_text' = <<>>
    /\ match' = NoMatch
    /\ unreleased_body' = <<>>
    /\ new_entries' = <<>>
    /\ body' = <<>>
    /\ updated' = <<>>
    /\ UNCHANGED <<changelog, entries_stat, entries_content, promotions>>

\* Line 33: read_text returns the file's content or raises OSError.
ReadChangelog ==
    /\ pc = "line33"
    /\ io' = Append(io, "read changelog")
    /\ \/ changelog_text' = Decode(changelog) /\ pc' = "line35" /\ UNCHANGED err
       \/ Fail("OSError read") /\ UNCHANGED changelog_text
    /\ UNCHANGED <<changelog, entries_stat, entries_content, args, match,
                   unreleased_body, new_entries, body, updated, orig, prev_ok, promotions>>

\* Lines 35-40.
SearchUnreleased ==
    /\ pc = "line35"
    /\ match' = re_search(changelog_text)
    /\ IF match' = NoMatch
       THEN Fail("RuntimeError missing section") /\ UNCHANGED unreleased_body
       ELSE /\ unreleased_body' = strip(group1(changelog_text, match'))
            /\ pc' = "line41"
            /\ UNCHANGED err
    /\ UNCHANGED <<changelog, entries_stat, entries_content, args, changelog_text,
                   new_entries, body, updated, orig, prev_ok, io, promotions>>

\* Line 41.
LoadEntries ==
    /\ pc = "line41"
    /\ \E r \in load_optional_file(args.new_entries_file) :
          /\ io' = io \o r.calls
          /\ IF r.err = "none"
             THEN new_entries' = r.value /\ pc' = "line43" /\ UNCHANGED err
             ELSE Fail(r.err) /\ UNCHANGED new_entries
    /\ UNCHANGED <<changelog, entries_stat, entries_content, args, changelog_text,
                   match, unreleased_body, body, updated, orig, prev_ok, promotions>>

\* Lines 43-53.
Compose ==
    /\ pc = "line43"
    /\ body' = BodyOf(args, unreleased_body, new_entries)
    /\ updated' = Splice(changelog_text, match, replacement(args, body'))
    /\ pc' = "line54"
    /\ UNCHANGED <<changelog, entries_stat, entries_content, args, changelog_text,
                   match, unreleased_body, new_entries, orig, prev_ok, io, err, promotions>>

\* Line 54, first half: write_text opens the file with mode "w", which raises
\* OSError or leaves the file empty.
WriteOpen ==
    /\ pc = "line54"
    /\ io' = Append(io, "write changelog")
    /\ \/ changelog' = <<>> /\ pc' = "line54 opened" /\ UNCHANGED err
       \/ Fail("OSError open") /\ UNCHANGED changelog
    /\ UNCHANGED <<entries_stat, entries_content, args, locals, orig, prev_ok, promotions>>

\* Line 54, second half: the text is encoded and written.  Encoding raises
\* UnicodeEncodeError before anything is written; the write raises OSError
\* after some part of the text reached the file; or the write completes.
WriteData ==
    /\ pc = "line54 opened"
    /\ IF ~Encodable(updated)
       THEN Fail("UnicodeEncodeError") /\ UNCHANGED <<changelog, promotions>>
       ELSE \/ /\ changelog' = Encode(updated)
               /\ pc' = "done"
               /\ promotions' = promotions + 1
               /\ UNCHANGED err
            \/ /\ \E k \in 0..MaxFlushed :
                     k < Len(Encode(updated)) /\ changelog' = Slice(Encode(updated), 0, k)
               /\ Fail("OSError write")
               /\ UNCHANGED promotions
    /\ UNCHANGED <<entries_stat, entries_content, args, locals, orig, prev_ok, io>>

Next ==
    \/ Invoke
    \/ ReadChangelog
    \/ SearchUnreleased
    \/ LoadEntries
    \/ Compose
    \/ WriteOpen
    \/ WriteData

Spec == Init /\ [][Next]_vars

---------------------------------------------------------------------------
(* Vocabulary of the properties.  Nothing below is used by the actions. *)

AtEnd == pc \in {"done", "failed"}

Occurs(text, lit) == \E i \in 0..Len(text) : StartsWithAt(text, i, lit)

\* A header line: the literal at the start of the text or right after a line break.
HeaderLineAt(text, i) ==
    StartsWithAt(text, i, HeaderLiteral) /\ (i = 0 \/ text[i] \in {NL, CR})

NumHeaderLines(text) == Cardinality({i \in 0..Len(text) : HeaderLineAt(text, i)})

FirstHeader(text) ==
    CHOOSE i \in 0..Len(text) :
        /\ StartsWithAt(text, i, HeaderLiteral)
        /\ \A j \in 0..(i - 1) : ~StartsWithAt(text, j, HeaderLiteral)

\* A line break ("\n", "\r\n" or "\r") followed by "## [".
SectionBreakAt(text, e) ==
    \/ StartsWithAt(text, e, <<NL, "#", "#", " ", "[">>)
    \/ StartsWithAt(text, e, <<CR, "#", "#", " ", "[">>)
    \/ StartsWithAt(text, e, <<CR, NL, "#", "#", " ", "[">>)

\* Where the next line that begins with "## [" is announced by its line break,
\* or the end of the text.
RegionEnd(text) ==
    LET from == FirstHeader(text) + Len(HeaderLiteral) IN
    CHOOSE e \in from..Len(text) :
        /\ e = Len(text) \/ SectionBreakAt(text, e)
        /\ \A j \in from..(e - 1) : ~SectionBreakAt(text, j)

NoEdgeSpace(s) == s = <<>> \/ (s[1] \notin Whitespace /\ s[Len(s)] \notin Whitespace)

\* u is raw without the white space at its two ends.
IsStripOf(u, raw) ==
    /\ NoEdgeSpace(u)
    /\ \E i \in 0..Len(raw) : \E j \in i..Len(raw) :
          /\ u = Slice(raw, i, j)
          /\ \A k \in 1..i : raw[k] \in Whitespace
          /\ \A k \in (j + 1)..Len(raw) : raw[k] \in Whitespace

VersionLine(v, r, b) ==
    <<"#", "#", " ", "[">> \o v \o <<"]", "(", "https://github.com/">> \o r
        \o <<"/releases/tag/">> \o v
        \o <<")", " ", "(", "[", "diff", "]", "(", "https://github.com/">> \o r
        \o <<"/compare/">> \o b \o <<"...">> \o v \o <<")", ")">>

NoSupplement == args.new_entries_file = "" \/ entries_stat # "file"

ExampleDoc == HeaderLiteral \o FooSection

ExampleArgs(a) ==
    a.version = <<"v1.2.3">> /\ a.repo = <<"org/repo">> /\ a.base = <<"v1.2.2">>

---------------------------------------------------------------------------
(* C1 *)

\* C1: when the changelog does not contain the text "## [Unreleased]", the run
\* never gets past the search and writes nothing at any point; it ends in
\* failure, with the missing-section error unless the changelog could not be
\* read, whatever the version, repo, base and entries path are, having done
\* nothing but read the changelog.
C1_MissingSectionLeavesFile ==
    ~Occurs(orig, HeaderLiteral) =>
        /\ changelog = orig
        /\ pc \in {"idle", "line33", "line35", "failed"}
        /\ AtEnd =>
              /\ err \in {"RuntimeError missing section", "OSError read"}
              /\ io = <<"read changelog">>

C1_Witness ==
    /\ pc = "failed"
    /\ err = "RuntimeError missing section"
    /\ Occurs(orig, LowerHeader)
    /\ args.new_entries_file # ""
    /\ entries_stat = "file"

---------------------------------------------------------------------------
(* C2 *)

\* C2: after a successful run the file is the text that was read with the
\* matched region replaced by "## [Unreleased]", a blank line, the version header line with
\* version, repo and base inserted as they are, a blank line, the final body
\* and one line break; on the document "## [Unreleased]\n\nfoo\n## [v1.2.2]"
\* with v1.2.3, org/repo, v1.2.2 and no supplement the file is exactly the text
\* of the example.
C2_ReplacementText ==
    /\ pc = "done" =>
          changelog =
              Slice(changelog_text, 0, match.start)
                  \o <<"#", "#", " ", "[", "Unreleased", "]", NL, NL>>
                  \o VersionLine(args.version, args.repo, args.base)
                  \o <<NL, NL>> \o body \o <<NL>>
                  \o Slice(changelog_text, match.end, Len(changelog_text))
    /\ (pc = "done" /\ orig = ExampleDoc /\ ExampleArgs(args) /\ new_entries = <<>>) =>
          changelog =
              <<"#", "#", " ", "[", "Unreleased", "]", NL, NL,
                "#", "#", " ", "[", "v1.2.3", "]", "(", "https://github.com/",
                "org/repo", "/releases/tag/", "v1.2.3", ")", " ", "(", "[", "diff",
                "]", "(", "https://github.com/", "org/repo", "/compare/", "v1.2.2",
                "...", "v1.2.3", ")", ")", NL, NL, "foo", NL,
                NL, "#", "#", " ", "[", "v1.2.2", "]">>

C2_Witness ==
    pc = "done" /\ orig = ExampleDoc /\ ExampleArgs(args) /\ new_entries = <<>>

---------------------------------------------------------------------------
(* C3 *)

\* C3: the region starts at the first "## [Unreleased]" and ends at the line
\* break that announces the next line beginning with "## [", or at the end of
\* the file; after a successful run what the file held before the region and
\* what it held after it are in the file unchanged, around a new region that
\* begins with the Unreleased header.
C3_OnlyTheRegionChanges ==
    pc = "done" =>
        LET s == FirstHeader(orig)
            e == RegionEnd(orig)
            after == Len(orig) - e
        IN  /\ Len(changelog) >= s + Len(HeaderLiteral) + after
            /\ Slice(changelog, 0, s) = Slice(orig, 0, s)
            /\ Slice(changelog, Len(changelog) - after, Len(changelog))
                   = Slice(orig, e, Len(orig))
            /\ StartsWithAt(changelog, s, HeaderLiteral)

---------------------------------------------------------------------------
(* C4 *)

BodyComputed == pc \in {"line54", "line54 opened", "done"}

RawSupplement ==
    IF args.new_entries_file # "" /\ entries_stat = "file" THEN entries_content ELSE <<>>

\* C4: with U the Unreleased body and S the supplemental text, both without
\* the white space at their ends, the final body is U, a blank line and S when
\* both are non-empty, the non-empty one alone when one is, and
\* "- Release <version>" when both are empty; it is never empty.
C4_FinalBody ==
    BodyComputed =>
        LET U == unreleased_body
            S == new_entries
        IN  /\ IsStripOf(U, Slice(changelog_text, match.start + Len(HeaderLiteral), match.end))
            /\ IsStripOf(S, Decode(RawSupplement))
            /\ (U # <<>> /\ S # <<>>) => body = U \o <<NL, NL>> \o S
            /\ (U # <<>> /\ S = <<>>) => body = U
            /\ (U = <<>> /\ S # <<>>) => body = S
            /\ (U = <<>> /\ S = <<>>) => body = <<"-", " ", "Release", " ">> \o args.version
            /\ body # <<>>

C4_Witness ==
    /\ pc = "done"
    /\ unreleased_body = <<"foo">>
    /\ new_entries = <<"- b">>
    /\ body = <<"foo", NL, NL, "- b">>

---------------------------------------------------------------------------
(* C5 *)

\* C5 as stated: a run on a document with two or more "## [Unreleased]" header
\* lines does not succeed.
C5_TwoHeadersFail == pc = "done" => NumHeaderLines(orig) <= 1

\* C5, amended: a document in which "## [Unreleased]" occurs at least once
\* never fails with the missing-section error; one with two or more header
\* lines is promoted at its first header, and its later headers stay in the
\* written file.
C5_FirstOfSeveral ==
    /\ err = "RuntimeError missing section" => ~Occurs(orig, HeaderLiteral)
    /\ (pc = "done" /\ NumHeaderLines(orig) >= 2) =>
          /\ match.start = FirstHeader(changelog_text)
          /\ NumHeaderLines(changelog) >= NumHeaderLines(orig)
          /\ changelog # orig

C5_Witness == pc = "done" /\ NumHeaderLines(orig) >= 2

---------------------------------------------------------------------------
(* C6 *)

Calls(kind) == Cardinality({k \in 1..Len(io) : io[k] \in kind})

Reads == {"read changelog", "read entries"}
Writes == {"write changelog"}

\* C6 as stated: a run ends having read one file, and having written once
\* when it succeeded and never when it failed.
C6_OneReadOneWrite ==
    AtEnd =>
        /\ Calls(Reads) = 1
        /\ pc = "done" => Calls(Writes) = 1
        /\ pc = "failed" => Calls(Writes) = 0

\* C6, amended: a run reads the changelog once; it reads the entries file
\* once more exactly when the header was found and a path is given at which
\* there is a file;
\* it calls the write of the changelog once when it succeeds, never when it
\* fails before line 54, and once when it fails inside line 54; it does
\* nothing else to the files.
C6_ReadsAndWrites ==
    AtEnd =>
        LET found == err # "OSError read" /\ Occurs(orig, HeaderLiteral)
            supplement == found /\ args.new_entries_file # "" /\ entries_stat = "file"
            reached54 == found /\ err \notin {"OSError exists", "OSError entries"}
        IN  /\ io = <<"read changelog">>
                      \o (IF supplement THEN <<"read entries">> ELSE <<>>)
                      \o (IF reached54 THEN <<"write changelog">> ELSE <<>>)
            /\ pc = "done" => Calls(Writes) = 1
            /\ err \in {"OSError read", "RuntimeError missing section",
                        "OSError exists", "OSError entries"}
                  => Calls(Writes) = 0 /\ changelog = orig

C6_Witness ==
    pc = "done" /\ io = <<"read changelog", "read entries", "write changelog">>

---------------------------------------------------------------------------
(* C7 *)

\* C7: when a run has ended, the changelog file is the complete rewritten
\* document or exactly what it was before the run.
C7_AllOrNothing ==
    AtEnd => (changelog = orig \/ (updated # <<>> /\ changelog = Encode(updated)))

---------------------------------------------------------------------------
(* C8 *)

\* What a run without --new-entries-file writes.
WrittenWhenOmitted ==
    LET t == Decode(orig)
        m == re_search(t)
    IN  Encode(Splice(t, m, replacement(args, BodyOf(args, strip(group1(t, m)), <<>>))))

---------------------------------------------------------------------------
(* C9 *)

\* C9: after a successful run the file holds "## [Unreleased]" with an empty
\* body directly above the section of the version just released, so a run
\* that follows a successful one never fails for a missing section; run without
\* a supplement, it puts above the sections that were there, which stay as
\* they were, one more section whose body is "- Release <version>", under a
\* fresh Unreleased header, so the file is never what it was before the run.
C9_RepeatedPromotion ==
    /\ pc = "done" =>
          StartsWithAt(changelog, FirstHeader(changelog),
                       HeaderLiteral \o <<NL, NL, "#", "#", " ", "[">>
                           \o args.version \o <<"]", "(">>)
    /\ (AtEnd /\ prev_ok) => err # "RuntimeError missing section"
    /\ (pc = "done" /\ prev_ok /\ NoSupplement) =>
          LET s == FirstHeader(orig)
              older == Slice(orig, s + Len(HeaderLiteral) + 2, Len(orig))
          IN  /\ Slice(orig, s, s + Len(HeaderLiteral) + 6)
                     = HeaderLiteral \o <<NL, NL, "#", "#", " ", "[">>
              /\ changelog =
                     Slice(orig, 0, s) \o HeaderLiteral \o <<NL, NL>>
                         \o VersionLine(args.version, args.repo, args.base)
                         \o <<NL, NL, "-", " ", "Release", " ">> \o args.version
                         \o <<NL, NL>> \o older
              /\ changelog # orig

C9_Witness ==
    /\ pc = "done" /\ prev_ok /\ NoSupplement
    /\ Occurs(orig, VersionLine(args.version, args.repo, args.base))

---------------------------------------------------------------------------
(* C10 *)

\* C10: a run succeeds only on a document that has a line beginning with the
\* exact text "## [Unreleased]".
C10_HeaderLineOnly == pc = "done" => NumHeaderLines(orig) >= 1

====
